---------------------------- MODULE Spec2Model ----------------------------
(***************************************************************************)
(* A model of venezia.py, the Streamlit viewer of a time series of rasters *)
(* kept in an S3 bucket.  One run of main() is a chain of steps; Streamlit *)
(* reruns main() after every interaction, the widget values and the        *)
(* session state surviving from one run to the next.                       *)
(*                                                                         *)
(* Text the code takes apart (bucket, prefix, object keys, s3:// paths) is *)
(* a sequence of one-character strings; opaque text (credential values,    *)
(* messages) is a string.                                                  *)
(***************************************************************************)
EXTENDS Integers, Sequences, FiniteSets, TLC

VARIABLES
    pc,                  \* the position of main() in its current run
    aws_credentials,     \* main: aws_credentials
    bucket_name,         \* main: bucket_name (a sidebar text input)
    prefix,              \* main: prefix (a sidebar text input)
    response,            \* list_s3_files: what list_objects_v2 answered
    s3_files,            \* main: s3_files, the return value of list_s3_files
    returned,            \* per kind of listing outcome, the values list_s3_files returned
    messages,            \* what st.error / st.warning showed in this run
    slider_widget,       \* the time slider's widget state, kept between runs
    requested_index,     \* the slider position found at the start of the slider step
    selected_time_index, \* main: selected_time_index
    current_file,        \* main: current_file
    loaded,              \* main: (data, bounds, transform, crs)
    loads,               \* the paths this run called load_raster_from_s3 with
    colormap,            \* main: colormap
    overlay,             \* main: img, the raster layer added to the map
    displayed,           \* the grid the page shows
    shown_at_start,      \* the grid the page showed when this run began
    last_clicked,        \* st.session_state.last_clicked
    origin_pixel,        \* the pixel whose coordinate was clicked, when a pixel was
    pixel,               \* the outcome of the pixel value identifier
    statistics           \* the statistics block of the sidebar

vars == <<pc, aws_credentials, bucket_name, prefix, response, s3_files, returned,
          messages, slider_widget, requested_index, selected_time_index,
          current_file, loaded, loads, colormap, overlay, displayed,
          shown_at_start, last_clicked, origin_pixel, pixel, statistics>>

-----------------------------------------------------------------------------
(* Bounds of the model. *)

\* the most objects a bucket holds
MaxStore == 3
\* the most rows and columns of a grid of the pixel specification
MaxRows == 3
MaxCols == 3
\* clicked coordinates lie in -MaxCoord .. MaxCoord
MaxCoord == 4

-----------------------------------------------------------------------------
(* Text. *)

\* The characters in use, in code point order (S3 lists keys in UTF-8 order).
CharOrder ==
    << ".", "/", "3", ":", "F", "I", "T", "a", "b", "f", "i", "p", "q", "s", "t", "x" >>

Ord(c) == CHOOSE i \in 1..Len(CharOrder) : CharOrder[i] = c

\* str.lower(), one character
LowerChar(c) ==
    CASE c = "F" -> "f"
      [] c = "I" -> "i"
      [] c = "T" -> "t"
      [] OTHER -> c

\* str.lower()
lower(s) == [i \in 1..Len(s) |-> LowerChar(s[i])]

\* str.endswith(suffix)
endswith(s, suffix) ==
    /\ Len(suffix) <= Len(s)
    /\ SubSeq(s, Len(s) - Len(suffix) + 1, Len(s)) = suffix

\* str.startswith(p): how S3 matches Prefix
startswith(s, p) ==
    /\ Len(p) <= Len(s)
    /\ SubSeq(s, 1, Len(p)) = p

RECURSIVE LessText(_, _)
\* s sorts before t, by code point
LessText(s, t) ==
    IF s = <<>> THEN t # <<>>
    ELSE IF t = <<>> THEN FALSE
    ELSE IF s[1] # t[1] THEN Ord(s[1]) < Ord(t[1])
    ELSE LessText(Tail(s), Tail(t))

RECURSIVE Sorted(_)
\* the texts of a set, in code point order
Sorted(S) ==
    IF S = {} THEN <<>>
    ELSE LET m == CHOOSE k \in S : \A o \in S \ {k} : LessText(k, o)
         IN  <<m>> \o Sorted(S \ {m})

TifSuffix == << ".", "t", "i", "f" >>
TiffSuffix == << ".", "t", "i", "f", "f" >>

\* f"s3://{bucket}/{key}"
S3Path(bucket, key) == << "s", "3", ":", "/", "/" >> \o bucket \o << "/" >> \o key

-----------------------------------------------------------------------------
(* The object store. *)

\* The keys a bucket may hold.
Keys ==
    { << "p", "/", "a", ".", "t", "i", "f" >>,
      << "p", "/", "b", ".", "T", "I", "F" >>,
      << "p", "/", "b", ".", "T", "i", "f", "f" >>,
      << "p", "/", "a", ".", "t", "x", "t" >>,
      << "p", "q", "/", "x", ".", "t", "i", "f" >>,
      << "a", ".", "t", "i", "f", "f" >>,
      << "p", "/", "t", "i", "f" >> }

Stores == { S \in SUBSET Keys : Cardinality(S) <= MaxStore }

Buckets == { << "b" >> }
Prefixes == { <<>>, << "p" >>, << "p", "/" >>, << "x" >> }

\* What the call of line 82 can end in: an answer, or an exception of botocore.
S3Outcomes ==
    { "ok", "NoCredentialsError", "AccessDenied", "NoSuchBucket", "EndpointConnectionError" }

NoResponse == [status |-> "none", has_contents |-> FALSE, Contents |-> <<>>]

\* s3_client.list_objects_v2(Bucket=bucket, Prefix=prefix) on a bucket holding
\* `store`: the keys that start with the prefix, in key order; an answer with no
\* such key has no 'Contents'.
list_objects_v2(store, p, outcome) ==
    LET keys == Sorted({ k \in store : startswith(k, p) })
    IN  IF outcome = "ok"
        THEN [status |-> "ok", has_contents |-> keys # <<>>, Contents |-> keys]
        ELSE [status |-> outcome, has_contents |-> FALSE, Contents |-> <<>>]

-----------------------------------------------------------------------------
(* list_s3_files *)

\* line 87, without the lower(): a plausible slip
IsGeoTiffKeyCaseSensitive(key) ==
    endswith(key, TifSuffix) \/ endswith(key, TiffSuffix)

\* line 87: obj['Key'].lower().endswith(('.tif', '.tiff'))
IsGeoTiffKey(key) ==
    endswith(lower(key), TifSuffix) \/ endswith(lower(key), TiffSuffix)

RECURSIVE CollectFiles(_, _, _, _)
\* lines 84-88: the loop over response['Contents'], from object i on
CollectFiles(bucket, contents, i, files) ==
    IF i > Len(contents) THEN files
    ELSE CollectFiles(bucket, contents, i + 1,
                      IF IsGeoTiffKey(contents[i])
                      THEN Append(files, S3Path(bucket, contents[i]))
                      ELSE files)

\* lines 74-95: the files returned and the errors shown
list_s3_files(bucket, resp) ==
    CASE resp.status = "ok" ->
           [files  |-> IF resp.has_contents
                       THEN CollectFiles(bucket, resp.Contents, 1, <<>>)
                       ELSE <<>>,
            errors |-> {}]
      [] resp.status = "NoCredentialsError" ->
           [files |-> <<>>, errors |-> {"AWS credentials not found or invalid"}]
      [] OTHER ->
           [files |-> <<>>, errors |-> {"Error accessing S3"}]

\* The kinds of listing outcome the caller is to tell apart.
OutcomeKinds == { "auth", "unreachable", "empty" }

OutcomeKind(resp, files) ==
    CASE resp.status \in {"NoCredentialsError", "AccessDenied"} -> "auth"
      [] resp.status \in {"NoSuchBucket", "EndpointConnectionError"} -> "unreachable"
      [] resp.status = "ok" /\ files = <<>> -> "empty"
      [] OTHER -> "listed"

\* `returned` after list_s3_files gave `files` on the answer `resp`
Record(resp, files) ==
    LET k == OutcomeKind(resp, files)
    IN  IF k \in OutcomeKinds
        THEN [returned EXCEPT ![k] = @ \cup {files}]
        ELSE returned

-----------------------------------------------------------------------------
(* Values that may be None. *)

None == [none |-> TRUE]
Some(v) == [none |-> FALSE, val |-> v]

\* not a value taken apart: a credential that is None
NoneText == "<None>"

\* Python's truth of a credential value: None and "" are false
Truthy(v) == v # NoneText /\ v # ""

-----------------------------------------------------------------------------
(* Rasters. *)

\* A sample of a grid: a number, or not-a-number.
Num(v) == [nan |-> FALSE, v |-> v]
NaN == [nan |-> TRUE, v |-> 0]

\* data.shape
Rows(data) == Len(data)
Cols(data) == Len(data[1])

\* rasterio's Affine(a, b, c, d, e, f): x = a*col + b*row + c, y = d*col + e*row + f
Affine(a, b, c, d, e, f) == [a |-> a, b |-> b, c |-> c, d |-> d, e |-> e, f |-> f]

\* transform * (col, row)
Forward(t, col, row) ==
    [x |-> t.a * col + t.b * row + t.c, y |-> t.d * col + t.e * row + t.f]

Determinant(t) == t.a * t.e - t.b * t.d

\* ~transform * (x, y): the fractional (col, row), each a quotient n / d
Inverse(t, x, y) ==
    << [n |-> t.e * (x - t.c) - t.b * (y - t.f), d |-> Determinant(t)],
       [n |-> t.a * (y - t.f) - t.d * (x - t.c), d |-> Determinant(t)] >>

Abs(n) == IF n < 0 THEN -n ELSE n

\* the quotient rounded toward negative infinity
Floor(q) == IF q.d > 0 THEN q.n \div q.d ELSE (-q.n) \div (-q.d)

\* int(q): Python's int() of a float drops the fraction (rounds toward zero)
int(q) ==
    IF (q.n < 0) # (q.d < 0)
    THEN -(Abs(q.n) \div Abs(q.d))
    ELSE Abs(q.n) \div Abs(q.d)

\* src.bounds of a raster with this transform and shape
Bounds(t, rows, cols) ==
    [left |-> t.c, bottom |-> t.f + t.e * rows, right |-> t.c + t.a * cols, top |-> t.f]

\* data[r, c] of numpy: an index below zero counts from the end, one outside
\* the shape raises IndexError
NumpyIndex(data, r, c) ==
    IF /\ -Rows(data) <= r /\ r < Rows(data)
       /\ -Cols(data) <= c /\ c < Cols(data)
    THEN [raised |-> FALSE,
          val |-> data[(IF r < 0 THEN r + Rows(data) ELSE r) + 1]
                      [(IF c < 0 THEN c + Cols(data) ELSE c) + 1]]
    ELSE [raised |-> TRUE, val |-> NaN]

\* line 233 with the two axes of the shape exchanged: a plausible slip
InShapeExchanged(px, py, data) ==
    /\ 0 <= px /\ px < Rows(data)
    /\ 0 <= py /\ py < Cols(data)

\* line 233: 0 <= px < data.shape[1] and 0 <= py < data.shape[0]
InShape(px, py, data) ==
    /\ 0 <= px /\ px < Cols(data)
    /\ 0 <= py /\ py < Rows(data)

\* lines 228-238: the pixel value identifier, for the click (lat, lon).
\* py takes the first result of the inverse transform and px the second;
\* data is indexed [py, px].
PixelQuery(data, transform, click) ==
    LET inv == Inverse(transform, click.lon, click.lat)
        py_frac == inv[1]
        px_frac == inv[2]
        px == int(px_frac)
        py == int(py_frac)
        cell == NumpyIndex(data, py, px)
    IN  [py_frac |-> py_frac, px_frac |-> px_frac, px |-> px, py |-> py,
         outcome |-> IF InShape(px, py, data)
                     THEN IF cell.raised THEN "IndexError" ELSE "value"
                     ELSE "none",
         value |-> IF InShape(px, py, data) THEN cell.val ELSE NaN]

Samples(data) == { data[r][c] : r \in 1..Rows(data), c \in 1..Cols(data) }
Finite(data) == { s \in Samples(data) : ~s.nan }

\* np.nanmin(data): the least sample that is a number; nan when none is
nanmin(data) ==
    IF Finite(data) = {} THEN NaN
    ELSE CHOOSE s \in Finite(data) : \A o \in Finite(data) : s.v <= o.v

\* np.nanmax(data)
nanmax(data) ==
    IF Finite(data) = {} THEN NaN
    ELSE CHOOSE s \in Finite(data) : \A o \in Finite(data) : s.v >= o.v

\* lines 111-119
create_colormap(data) == [vmin |-> nanmin(data), vmax |-> nanmax(data)]

\* What rasterio.open / src.read can end in.
LoadFailures == { "ObjectNotFound", "DecodeFailure" }

\* lines 97-109, `file` being what the object holds: (data, bounds, transform, crs)
load_raster_from_s3(file, outcome) ==
    IF outcome = "ok"
    THEN [data |-> Some(file.data),
          bounds |-> Some(Bounds(file.transform, Rows(file.data), Cols(file.data))),
          transform |-> Some(file.transform),
          crs |-> Some(file.crs),
          errors |-> {}]
    ELSE [data |-> None, bounds |-> None, transform |-> None, crs |-> None,
          errors |-> {"Error reading raster from S3"}]

NotLoaded == [data |-> None, bounds |-> None, transform |-> None, crs |-> None]

\* the mean of the samples that are numbers, a quotient; nan when none is
nanmean(data) ==
    LET RECURSIVE Sum(_)
        Sum(S) == IF S = {} THEN 0
                  ELSE LET s == CHOOSE s \in S : TRUE IN s[3] + Sum(S \ {s})
        cells == { <<r, c, data[r][c].v>> :
                     r \in 1..Rows(data), c \in 1..Cols(data) }
        finite == { x \in cells : ~data[x[1]][x[2]].nan }
    IN  IF finite = {} THEN [nan |-> TRUE, n |-> 0, d |-> 1]
        ELSE [nan |-> FALSE, n |-> Sum(finite), d |-> Cardinality(finite)]

-----------------------------------------------------------------------------
(* get_aws_credentials *)

Credentials(a, s) ==
    [access_key_id |-> a, secret_access_key |-> s, region |-> "us-east-1"]

\* What st.secrets["aws"] holds (None: a key is missing, KeyError), the
\* environment, and what the user typed into the sidebar.
SecretsValues == { None, Some(Credentials("AK", "SK")), Some(Credentials("", "SK")) }
EnvValues == { Credentials(a, s) : a \in {NoneText, "AK"}, s \in {NoneText, "SK"} }
SidebarValues == { Credentials(a, s) : a \in {"", "AK"}, s \in {"", "SK"} }

\* line 128 with any() for all(): a plausible slip
AnyCredentials(c) == Truthy(c.access_key_id) \/ Truthy(c.secret_access_key)

\* lines 47 and 128: all([access_key_id, secret_access_key])
HasCredentials(c) == Truthy(c.access_key_id) /\ Truthy(c.secret_access_key)

\* lines 19-53
get_aws_credentials(secrets, env, sidebar) ==
    IF ~secrets.none THEN secrets.val
    ELSE IF ~HasCredentials(env) THEN sidebar
    ELSE env

-----------------------------------------------------------------------------
(* What the runs of main() read. *)

MainKeys ==
    { << "p", "/", "a", ".", "t", "i", "f" >>,
      << "p", "/", "b", ".", "T", "I", "F" >>,
      << "a", ".", "t", "i", "f", "f" >> }
MainStores == SUBSET MainKeys
MainPrefixes == { <<>>, << "p", "/" >> }
\* main() passes the credentials it holds: botocore finds credentials
MainS3Outcomes == S3Outcomes \ { "NoCredentialsError" }

NorthUp == Affine(2, 0, 0, 0, -2, 4)

\* What an object of the bucket may hold.
RasterFiles ==
    { [data |-> << << NaN, NaN >> >>, transform |-> NorthUp, crs |-> "EPSG:4326"],
      [data |-> << << Num(0) >>, << Num(1) >> >>, transform |-> NorthUp, crs |-> "EPSG:4326"],
      [data |-> << << NaN, Num(1) >> >>, transform |-> NorthUp, crs |-> "EPSG:4326"] }

Click(lat, lon) == [lat |-> lat, lon |-> lon]
MainClicks == { Click(3, 1), Click(5, -1), Click(0, 3) }

NoMessages == {}

-----------------------------------------------------------------------------
(* The state before the first run. *)

RunStart ==
    /\ aws_credentials = Credentials(NoneText, NoneText)
    /\ bucket_name = <<>>
    /\ prefix = <<>>
    /\ response = NoResponse
    /\ s3_files = <<>>
    /\ messages = NoMessages
    /\ requested_index = None
    /\ selected_time_index = None
    /\ current_file = None
    /\ loaded = NotLoaded
    /\ loads = <<>>
    /\ colormap = None
    /\ overlay = None
    /\ pixel = None
    /\ statistics = None

Init ==
    /\ pc = "idle"
    /\ RunStart
    /\ returned = [k \in OutcomeKinds |-> {}]
    /\ slider_widget = None
    /\ displayed = None
    /\ shown_at_start = None
    /\ last_clicked = None
    /\ origin_pixel = None

-----------------------------------------------------------------------------
(* The user, between two runs. *)

\* The user drags the time slider: a position the slider offers, min_value 0
\* to max_value len(s3_files) - 1 (lines 158-163).
MoveSlider ==
    /\ pc = "idle"
    /\ ~slider_widget.none
    /\ \E v \in 0..slider_widget.val.max :
         /\ v # slider_widget.val.value
         /\ slider_widget' = Some([slider_widget.val EXCEPT !.value = v])
    /\ UNCHANGED <<pc, aws_credentials, bucket_name, prefix, response, s3_files,
                   returned, messages, requested_index, selected_time_index,
                   current_file, loaded, loads, colormap, overlay, displayed,
                   shown_at_start, last_clicked, origin_pixel, pixel, statistics>>

\* A click on the map reaches st.session_state.last_clicked (line 227 reads it).
ClickMap ==
    /\ pc = "idle"
    /\ \E c \in MainClicks :
         /\ last_clicked # Some(c)
         /\ last_clicked' = Some(c)
    /\ UNCHANGED <<pc, aws_credentials, bucket_name, prefix, response, s3_files,
                   returned, messages, slider_widget, requested_index,
                   selected_time_index, current_file, loaded, loads, colormap,
                   overlay, displayed, shown_at_start, origin_pixel, pixel,
                   statistics>>

-----------------------------------------------------------------------------
(* One run of main(), lines 121-252. *)

\* Streamlit runs the script again: what the last run computed is gone, the page
\* keeps showing the last run's elements until this run replaces them.
StartRun ==
    /\ pc = "idle"
    /\ pc' = "credentials"
    /\ aws_credentials' = Credentials(NoneText, NoneText)
    /\ bucket_name' = <<>>
    /\ prefix' = <<>>
    /\ response' = NoResponse
    /\ s3_files' = <<>>
    /\ messages' = NoMessages
    /\ requested_index' = None
    /\ selected_time_index' = None
    /\ current_file' = None
    /\ loaded' = NotLoaded
    /\ loads' = <<>>
    /\ colormap' = None
    /\ overlay' = None
    /\ pixel' = None
    /\ statistics' = None
    /\ shown_at_start' = displayed
    /\ UNCHANGED <<returned, slider_widget, displayed, last_clicked, origin_pixel>>

\* lines 125-128 and 251-252
GetCredentials ==
    /\ pc = "credentials"
    /\ \E secrets \in SecretsValues, env \in EnvValues, sidebar \in SidebarValues :
         LET c == get_aws_credentials(secrets, env, sidebar)
         IN  /\ aws_credentials' = c
             /\ IF HasCredentials(c)
                THEN /\ pc' = "data_source"
                     /\ UNCHANGED messages
                ELSE /\ pc' = "end"
                     /\ messages' = messages \cup {"AWS credentials are required"}
    /\ UNCHANGED <<bucket_name, prefix, response, s3_files, returned, slider_widget,
                   requested_index, selected_time_index, current_file, loaded, loads,
                   colormap, overlay, displayed, shown_at_start, last_clicked,
                   origin_pixel, pixel, statistics>>

\* lines 130-150: the sidebar's text inputs
DataSource ==
    /\ pc = "data_source"
    /\ \E b \in Buckets \cup {<<>>}, p \in MainPrefixes :
         /\ bucket_name' = b
         /\ prefix' = p
         /\ pc' = IF b # <<>> THEN "list" ELSE "end"
    /\ UNCHANGED <<aws_credentials, response, s3_files, returned, messages,
                   slider_widget, requested_index, selected_time_index, current_file,
                   loaded, loads, colormap, overlay, displayed, shown_at_start,
                   last_clicked, origin_pixel, pixel, statistics>>

\* lines 152-154 and 249-250: list_s3_files on a bucket holding one of `stores`,
\* the call of line 82 ending in one of `outcomes`
ListFilesOf(stores, outcomes) ==
    /\ pc = "list"
    /\ \E store \in stores, outcome \in outcomes :
         LET resp == list_objects_v2(store, prefix, outcome)
             got == list_s3_files(bucket_name, resp)
         IN  /\ response' = resp
             /\ s3_files' = got.files
             /\ returned' = Record(resp, got.files)
             /\ IF got.files # <<>>
                THEN /\ pc' = "slider"
                     /\ messages' = messages \cup got.errors
                ELSE /\ pc' = "end"
                     /\ messages' = messages \cup got.errors
                                      \cup {"No GeoTIFF files found"}
    /\ UNCHANGED <<aws_credentials, bucket_name, prefix, slider_widget,
                   requested_index, selected_time_index, current_file, loaded, loads,
                   colormap, overlay, displayed, shown_at_start, last_clicked,
                   origin_pixel, pixel, statistics>>

ListFiles == ListFilesOf(MainStores, MainS3Outcomes)

\* st.sidebar.slider("Select Time Step", 0, n - 1, 0) with the position one past
\* the last offered: a plausible slip
SliderValueOffByOne(n) ==
    IF ~slider_widget.none /\ slider_widget.val.max = n - 1
    THEN slider_widget.val.value + 1
    ELSE 0

\* lines 158-163: st.sidebar.slider("Select Time Step", 0, n - 1, 0).  A slider
\* with the arguments of the last run's keeps the position the user gave it;
\* with other arguments it is another widget, at its default 0.
SliderValue(n) ==
    IF ~slider_widget.none /\ slider_widget.val.max = n - 1
    THEN slider_widget.val.value
    ELSE 0

\* lines 158-166
TimeSlider ==
    /\ pc = "slider"
    /\ LET n == Len(s3_files)
           i == SliderValue(n)
       IN  /\ requested_index' =
                  IF slider_widget.none THEN None ELSE Some(slider_widget.val.value)
           /\ slider_widget' = Some([max |-> n - 1, value |-> i])
           /\ selected_time_index' = Some(i)
           \* Python: s3_files[i], an index from 0
           /\ current_file' = IF i + 1 \in DOMAIN s3_files
                              THEN Some(s3_files[i + 1])
                              ELSE Some(<< "IndexError" >>)
    /\ pc' = "load"
    /\ UNCHANGED <<aws_credentials, bucket_name, prefix, response, s3_files,
                   returned, messages, loaded, loads, colormap, overlay, displayed,
                   shown_at_start, last_clicked, origin_pixel, pixel, statistics>>

\* lines 167-169
LoadRaster ==
    /\ pc = "load"
    /\ \E file \in RasterFiles, outcome \in {"ok"} \cup LoadFailures :
         LET got == load_raster_from_s3(file, outcome)
         IN  /\ loaded' = [data |-> got.data, bounds |-> got.bounds,
                           transform |-> got.transform, crs |-> got.crs]
             /\ messages' = messages \cup got.errors
             /\ pc' = IF ~got.data.none THEN "map" ELSE "end"
    /\ loads' = Append(loads, current_file.val)
    /\ UNCHANGED <<aws_credentials, bucket_name, prefix, response, s3_files,
                   returned, slider_widget, requested_index, selected_time_index,
                   current_file, colormap, overlay, displayed, shown_at_start,
                   last_clicked, origin_pixel, pixel, statistics>>

\* lines 170-216: the map, the colormap, the raster layer, folium_static(m)
RenderMap ==
    /\ pc = "map"
    /\ colormap' = Some(create_colormap(loaded.data.val))
    /\ overlay' = Some([data |-> loaded.data.val, bounds |-> loaded.bounds.val,
                        name |-> selected_time_index.val])
    /\ displayed' = Some([file |-> current_file.val, data |-> loaded.data.val])
    /\ pc' = "pixel"
    /\ UNCHANGED <<aws_credentials, bucket_name, prefix, response, s3_files,
                   returned, messages, slider_widget, requested_index,
                   selected_time_index, current_file, loaded, loads, shown_at_start,
                   last_clicked, origin_pixel, pixel, statistics>>

\* lines 218-238: the pixel value identifier
PixelIdentifier ==
    /\ pc = "pixel"
    /\ pixel' = IF ~last_clicked.none
                THEN Some(PixelQuery(loaded.data.val, loaded.transform.val,
                                     last_clicked.val))
                ELSE None
    /\ pc' = "statistics"
    /\ UNCHANGED <<aws_credentials, bucket_name, prefix, response, s3_files,
                   returned, messages, slider_widget, requested_index,
                   selected_time_index, current_file, loaded, loads, colormap,
                   overlay, displayed, shown_at_start, last_clicked, origin_pixel,
                   statistics>>

\* lines 240-248 (the standard deviation, a square root, is left out)
Statistics ==
    /\ pc = "statistics"
    /\ statistics' = Some([min |-> nanmin(loaded.data.val),
                           max |-> nanmax(loaded.data.val),
                           mean |-> nanmean(loaded.data.val)])
    /\ pc' = "end"
    /\ UNCHANGED <<aws_credentials, bucket_name, prefix, response, s3_files,
                   returned, messages, slider_widget, requested_index,
                   selected_time_index, current_file, loaded, loads, colormap,
                   overlay, displayed, shown_at_start, last_clicked, origin_pixel,
                   pixel>>

\* The script ends: Streamlit removes from the page what this run did not show
\* again, and forgets the state of a widget this run did not create.
EndRun ==
    /\ pc = "end"
    /\ pc' = "idle"
    /\ displayed' = IF overlay.none THEN None ELSE displayed
    /\ slider_widget' = IF selected_time_index.none THEN None ELSE slider_widget
    /\ UNCHANGED <<aws_credentials, bucket_name, prefix, response, s3_files,
                   returned, messages, requested_index, selected_time_index,
                   current_file, loaded, loads, colormap, overlay, shown_at_start,
                   last_clicked, origin_pixel, pixel, statistics>>

Next ==
    \/ MoveSlider
    \/ ClickMap
    \/ StartRun
    \/ GetCredentials
    \/ DataSource
    \/ ListFiles
    \/ TimeSlider
    \/ LoadRaster
    \/ RenderMap
    \/ PixelIdentifier
    \/ Statistics
    \/ EndRun

Spec == Init /\ [][Next]_vars

-----------------------------------------------------------------------------
(* list_s3_files on its own: any bucket content, any prefix, any outcome of   *)
(* the listing call, one call after the other.                                *)

InitList ==
    /\ pc = "list"
    /\ RunStart
    /\ returned = [k \in OutcomeKinds |-> {}]
    /\ slider_widget = None
    /\ displayed = None
    /\ shown_at_start = None
    /\ last_clicked = None
    /\ origin_pixel = None

\* The arguments of a call: bucket, prefix, credentials.
CallListFiles ==
    /\ pc = "list"
    /\ response.status = "none"
    /\ bucket_name = <<>>
    /\ \E b \in Buckets, p \in Prefixes, c \in EnvValues :
         /\ bucket_name' = b
         /\ prefix' = p
         /\ aws_credentials' = c
    /\ UNCHANGED <<pc, response, s3_files, returned, messages, slider_widget,
                   requested_index, selected_time_index, current_file, loaded, loads,
                   colormap, overlay, displayed, shown_at_start, last_clicked,
                   origin_pixel, pixel, statistics>>

\* botocore raises NoCredentialsError only when it was given no credentials.
ListAnyFiles ==
    /\ bucket_name # <<>>
    /\ IF HasCredentials(aws_credentials)
       THEN ListFilesOf(Stores, MainS3Outcomes)
       ELSE ListFilesOf(Stores, S3Outcomes)

\* The caller goes on to a further call.
NextCall ==
    /\ pc \in {"slider", "end"}
    /\ pc' = "list"
    /\ bucket_name' = <<>>
    /\ prefix' = <<>>
    /\ aws_credentials' = Credentials(NoneText, NoneText)
    /\ response' = NoResponse
    /\ s3_files' = <<>>
    /\ messages' = NoMessages
    /\ UNCHANGED <<returned, slider_widget, requested_index, selected_time_index,
                   current_file, loaded, loads, colormap, overlay, displayed,
                   shown_at_start, last_clicked, origin_pixel, pixel, statistics>>

NextList == CallListFiles \/ ListAnyFiles \/ NextCall

SpecList == InitList /\ [][NextList]_vars

-----------------------------------------------------------------------------
(* The pixel value identifier on its own: any grid shape, several transforms, *)
(* any click.                                                                 *)

\* a transform with rotation and shear terms
Sheared == Affine(2, 1, -1, 1, -2, 1)
\* one unit a pixel, row 0 at the bottom
UnitScale == Affine(1, 0, -1, 0, 1, -1)

Transforms == { NorthUp, Sheared, UnitScale }

\* a grid whose sample at (row, col) names the pixel
GridOf(rows, cols) ==
    [r \in 1..rows |-> [c \in 1..cols |-> Num((r - 1) * cols + (c - 1))]]

Pixel(row, col) == [row |-> row, col |-> col]

\* the click on the coordinate the transform gives pixel (row, col)
ClickOnPixel(t, row, col) ==
    LET g == Forward(t, col, row) IN Click(g.y, g.x)

InitPixel ==
    /\ pc = "pixel"
    /\ aws_credentials = Credentials("AK", "SK")
    /\ bucket_name = << "b" >>
    /\ prefix = <<>>
    /\ response = NoResponse
    /\ s3_files = <<>>
    /\ returned = [k \in OutcomeKinds |-> {}]
    /\ messages = NoMessages
    /\ slider_widget = None
    /\ requested_index = None
    /\ selected_time_index = None
    /\ current_file = None
    /\ loads = <<>>
    /\ colormap = None
    /\ overlay = None
    /\ displayed = None
    /\ shown_at_start = None
    /\ pixel = None
    /\ statistics = None
    /\ \E t \in Transforms, rows \in 1..MaxRows, cols \in 1..MaxCols :
         /\ loaded = [data |-> Some(GridOf(rows, cols)),
                      bounds |-> Some(Bounds(t, rows, cols)),
                      transform |-> Some(t),
                      crs |-> Some("EPSG:4326")]
         /\ \/ /\ origin_pixel = None
               /\ \E lat \in -MaxCoord..MaxCoord, lon \in -MaxCoord..MaxCoord :
                    last_clicked = Some(Click(lat, lon))
            \/ \E row \in 0..(rows - 1), col \in 0..(cols - 1) :
                 /\ origin_pixel = Some(Pixel(row, col))
                 /\ last_clicked = Some(ClickOnPixel(t, row, col))

NextPixel == PixelIdentifier

SpecPixel == InitPixel /\ [][NextPixel]_vars

-----------------------------------------------------------------------------
(* Properties of the time step index and of a failed load (Spec). *)

RunOver == pc = "idle" /\ response.status # "none"

\* the slider step of this run found a position past the end of the listing
StaleIndex ==
    /\ ~requested_index.none
    /\ ~selected_time_index.none
    /\ requested_index.val >= Len(s3_files)

LoadFailed == loads # <<>> /\ loaded.data.none

\* C2: when the load of the selected time step fails after an earlier load had
\* put a grid on the page, the error is reported and the page still shows that
\* grid.
C2_FailedLoadKeepsGrid ==
    (pc = "idle" /\ LoadFailed /\ ~shown_at_start.none) =>
        /\ "Error reading raster from S3" \in messages
        /\ displayed = shown_at_start

-----------------------------------------------------------------------------
(* Properties of the pixel value identifier (SpecPixel). *)

\* C3: the identifier reports a value only for a pixel within the shape
\* (0 <= row < rows, 0 <= col < cols, the row being py and the column px, as
\* data[py, px] reads them), a pixel outside yields no value, and the grid is
\* never indexed outside its shape.
C3_ValueOnlyWithinShape ==
    ~pixel.none =>
        LET q == pixel.val
            rows == Rows(loaded.data.val)
            cols == Cols(loaded.data.val)
        IN  /\ q.outcome # "IndexError"
            /\ q.outcome = "value" =>
                   /\ 0 <= q.py /\ q.py < rows
                   /\ 0 <= q.px /\ q.px < cols
            /\ (q.py < 0 \/ q.py >= rows \/ q.px < 0 \/ q.px >= cols) =>
                   q.outcome = "none"

\* C3, witness: a value reported from a grid that is not square, at a pixel off
\* the diagonal, in the grid's last row
C3_ValueFromNonSquareGrid ==
    /\ ~pixel.none
    /\ pixel.val.outcome = "value"
    /\ Rows(loaded.data.val) > Cols(loaded.data.val)
    /\ pixel.val.py = Rows(loaded.data.val) - 1
    /\ pixel.val.py # pixel.val.px

\* C4: the integer pixel coordinates are the fractional ones of the inverse
\* transform rounded toward negative infinity.
C4_RoundsTowardNegativeInfinity ==
    ~pixel.none =>
        /\ pixel.val.px = Floor(pixel.val.px_frac)
        /\ pixel.val.py = Floor(pixel.val.py_frac)

\* C5: a click on the coordinate of a pixel (row, col) of the grid resolves to
\* that pixel: the row found is row and the column found is col.
C5_RoundTrip ==
    (~pixel.none /\ ~origin_pixel.none) =>
        /\ pixel.val.py = origin_pixel.val.row
        /\ pixel.val.px = origin_pixel.val.col

-----------------------------------------------------------------------------
(* Properties of list_s3_files (SpecList). *)

\* two characters that differ at most in case
SameLetter(a, b) ==
    \/ a = b
    \/ {a, b} \in { {"t", "T"}, {"i", "I"}, {"f", "F"} }

\* the key ends in .tif or .tiff, whatever the case of its letters
EndsInRasterExtension(key) ==
    \E ext \in { TifSuffix, TiffSuffix } :
        /\ Len(ext) <= Len(key)
        /\ \A i \in 1..Len(ext) : SameLetter(key[Len(key) - Len(ext) + i], ext[i])

Listed == pc \in {"slider", "end"} /\ response.status = "ok"

\* C6: after a listing, s3_files holds, for each listed key that ends in .tif or
\* .tiff whatever the case, s3://bucket/key, at the place the key has among the
\* listed keys that end so, and nothing else.
C6_OrderPreservingFilter ==
    Listed =>
        LET keys == response.Contents
            match == { i \in DOMAIN keys : EndsInRasterExtension(keys[i]) }
            place(i) == Cardinality({ j \in match : j <= i })
        IN  /\ Len(s3_files) = Cardinality(match)
            /\ \A i \in match : s3_files[place(i)] = S3Path(bucket_name, keys[i])

\* C6, witness: of three listed keys one is left out, and one kept for an
\* extension in capitals follows one kept for an extension in small letters
C6_FilteredListing ==
    /\ Listed
    /\ Len(response.Contents) = 3
    /\ Len(s3_files) = 2
    /\ \E i \in DOMAIN response.Contents :
         /\ ~IsGeoTiffKeyCaseSensitive(response.Contents[i])
         /\ s3_files[2] = S3Path(bucket_name, response.Contents[i])

\* C7: a prefix that is not empty and does not end in "/" matches as if it did:
\* every file returned lies under prefix + "/".
C7_PrefixEndsPathSegment ==
    (Listed /\ prefix # <<>> /\ prefix[Len(prefix)] # "/") =>
        \A i \in DOMAIN s3_files :
            startswith(s3_files[i], S3Path(bucket_name, prefix \o << "/" >>))

\* C8: an authentication failure, an unreachable store or missing bucket, and a
\* listing without a raster are three outcomes the caller can tell apart: no
\* value list_s3_files returns for one is returned for another.
C8_OutcomesDistinct ==
    \A k1 \in OutcomeKinds, k2 \in OutcomeKinds :
        k1 # k2 => returned[k1] \cap returned[k2] = {}

-----------------------------------------------------------------------------
(* Properties of a run of main() (Spec). *)

\* C9: the colormap is built only from a minimum and a maximum that are
\* numbers, and the statistics of a grid without a number are marked as such.
C9_ColormapFromDefinedBounds ==
    /\ ~colormap.none => (~colormap.val.vmin.nan /\ ~colormap.val.vmax.nan)
    /\ (~statistics.none /\ Finite(loaded.data.val) = {}) =>
           "DegenerateStatistics" \in messages

\* C10: the steps of a run are gated in order: the bucket is listed only with
\* both credentials and a bucket name, the loader is called at most once and
\* only on a listing that is not empty, the colormap, the raster layer, the
\* pixel identifier and the statistics come only after a load that gave a
\* grid, and a load gives data, bounds, transform and crs or none of them.
C10_StepsGated ==
    /\ response.status # "none" =>
           /\ aws_credentials.access_key_id \notin {NoneText, ""}
           /\ aws_credentials.secret_access_key \notin {NoneText, ""}
           /\ bucket_name # <<>>
    /\ loads # <<>> => (response.status # "none" /\ s3_files # <<>>)
    /\ Len(loads) <= 1
    /\ (~colormap.none \/ ~overlay.none \/ ~pixel.none \/ ~statistics.none) =>
           (Len(loads) = 1 /\ ~loaded.data.none)
    /\ ~loaded.data.none => loads # <<>>
    /\ loaded.bounds.none = loaded.data.none
    /\ loaded.transform.none = loaded.data.none
    /\ loaded.crs.none = loaded.data.none

\* C10, witness: a run that went through every step
C10_FullRun ==
    /\ pc = "idle"
    /\ ~statistics.none
    /\ ~pixel.none
    /\ ~colormap.none
    /\ Len(loads) = 1

=============================================================================
